---- MODULE Spec2Model ----
(***************************************************************************)
(* The graph-import pipeline of tree-to-graph.js (importRepo and its       *)
(* helpers), the earlier importer without a project scope, and the         *)
(* query proxy of index.js, over one shared graph store.                   *)
(*                                                                         *)
(* The store (Neo4j) is modelled by what the Cypher statements of the      *)
(* source do to it: File nodes with an internal id, IMPORTS relationships  *)
(* as a bag of (start id, end id) pairs, the uniqueness constraints and    *)
(* the in-memory graph catalog of the Graph Data Science library.          *)
(***************************************************************************)
EXTENDS Integers, Sequences, FiniteSets, Bags, TLC

(***************************************************************************)
(* Bounds of the model.                                                    *)
(***************************************************************************)
NumPaths == 2
MaxFiles == 2
MaxImports == 1
MaxRuns == 2
MaxRecords == 3
GraphSize == 5
MaxRows == 1
PeerFiles == 1

(***************************************************************************)
(* Optional values: a JavaScript undefined / Cypher null is the empty set, *)
(* a present value v is {v}.                                               *)
(***************************************************************************)
Absent == {}

Some(v) == {v}

The(o) == CHOOSE v \in o : TRUE

PathPool == <<"a", "b", "c", "d", "e", "f", "g">>

Paths == {PathPool[i] : i \in 1..NumPaths}

Projects == {"P1", "P2"}

\* The metadata a parser may attach to a record: each field present or not.
Metas ==
    { [externalImports |-> Some(<<"lodash">>), name |-> Some("n1"),
       loc |-> Absent, description |-> Absent],
      [externalImports |-> Some(<<"fs">>), name |-> Absent,
       loc |-> Some(10), description |-> Some("d")] }

RECURSIVE SeqsUpTo(_, _)
SeqsUpTo(S, n) ==
    IF n = 0 THEN {<<>>}
    ELSE LET shorter == SeqsUpTo(S, n - 1)
         IN shorter \cup {Append(s, x) : s \in shorter, x \in S}

ImportLists == {Some(s) : s \in SeqsUpTo(Paths, MaxImports)}

\* A record as the parsers hand it over, before the normalizer gives it an id.
WellFormed ==
    { [path |-> Some(p), importFiles |-> i, externalImports |-> m.externalImports,
       name |-> m.name, loc |-> m.loc, description |-> m.description,
       id |-> Absent] :
      p \in Paths, i \in ImportLists, m \in Metas }

\* The record {}: no path (and nothing else).
Malformed ==
    [path |-> Absent, importFiles |-> Absent, externalImports |-> Absent,
     name |-> Absent, loc |-> Absent, description |-> Absent, id |-> Absent]

FileRecords == WellFormed \cup {Malformed}

FileLists == SeqsUpTo(FileRecords, MaxFiles)

(***************************************************************************)
(* The store.  nodes is the sequence of File nodes, a node's index being   *)
(* its internal id (id(f)); rels is the bag of IMPORTS relationships, each *)
(* a pair <<start id, end id>>.                                            *)
(***************************************************************************)
NewNode(p) ==
    [path |-> p, projectUuid |-> Absent, externalImports |-> Absent,
     name |-> Absent, loc |-> Absent, description |-> Absent, id |-> Absent,
     importCount |-> Absent, importedByCount |-> Absent, clusterId |-> Absent]

Matching(ns, p) == {n \in 1..Len(ns) : ns[n].path = p}

\* CREATE in place of MERGE: a node is created whether or not one matches.
CreateNode(ns, p) ==
    [nodes |-> Append(ns, NewNode(p)), ids |-> {Len(ns) + 1}, created |-> TRUE]

\* MERGE (f:File {path: p}): the nodes matched, or one node created.
MergeNode(ns, p) ==
    IF Matching(ns, p) = {}
    THEN [nodes |-> Append(ns, NewNode(p)), ids |-> {Len(ns) + 1}, created |-> TRUE]
    ELSE [nodes |-> ns, ids |-> Matching(ns, p), created |-> FALSE]

\* The SET clause without f.projectUuid = $projectUuid.
SetFilePropsUnscoped(ns, ids, file, scope) ==
    [n \in 1..Len(ns) |->
        IF n \in ids
        THEN [ns[n] EXCEPT !.externalImports = file.externalImports,
                           !.name = file.name,
                           !.loc = file.loc,
                           !.description = file.description,
                           !.id = file.id]
        ELSE ns[n]]

\* The SET clause of the node upsert, on the nodes the MERGE bound.
SetFileProps(ns, ids, file, scope) ==
    [n \in 1..Len(ns) |->
        IF n \in ids
        THEN [ns[n] EXCEPT !.externalImports = file.externalImports,
                           !.projectUuid = Some(scope),
                           !.name = file.name,
                           !.loc = file.loc,
                           !.description = file.description,
                           !.id = file.id]
        ELSE ns[n]]

\* The SET clause of the importer without a project scope.
SetExternalImports(ns, ids, file) ==
    [n \in 1..Len(ns) |->
        IF n \in ids THEN [ns[n] EXCEPT !.externalImports = file.externalImports]
        ELSE ns[n]]

\* REQUIRE f.id IS UNIQUE, checked when the statement writes the property.
IdConstraintViolated(ns, cons) ==
    /\ "id" \in cons
    /\ \E m, n \in 1..Len(ns) : m # n /\ ns[m].id # Absent /\ ns[m].id = ns[n].id

\* A row without a path skipped, the statement going on with the next row.
SkipRowWithoutPath(ns, file, scope, cons) ==
    IF file.path = Absent THEN [ok |-> TRUE, nodes |-> ns]
    ELSE LET m == MergeNode(ns, The(file.path))
             set == SetFileProps(m.nodes, m.ids, file, scope)
         IN IF IdConstraintViolated(set, cons)
            THEN [ok |-> FALSE, nodes |-> m.nodes]
            ELSE [ok |-> TRUE, nodes |-> set]

\* One row of UNWIND $files: MERGE on the path, then SET.  A row without a
\* path cannot be merged and fails the statement.
NodeRow(ns, file, scope, cons) ==
    IF file.path = Absent THEN [ok |-> FALSE, nodes |-> ns]
    ELSE LET m == MergeNode(ns, The(file.path))
             set == SetFileProps(m.nodes, m.ids, file, scope)
         IN IF IdConstraintViolated(set, cons)
            THEN [ok |-> FALSE, nodes |-> m.nodes]
            ELSE [ok |-> TRUE, nodes |-> set]

LegacyNodeRow(ns, file) ==
    IF file.path = Absent THEN [ok |-> FALSE, nodes |-> ns]
    ELSE LET m == MergeNode(ns, The(file.path))
         IN [ok |-> TRUE, nodes |-> SetExternalImports(m.nodes, m.ids, file)]

\* The rows 1..k of the node upsert, in order, stopping at a failing row.
RECURSIVE NodeRows(_, _, _, _, _, _)
NodeRows(ns, fs, k, scope, cons, old) ==
    IF k = 0 THEN [ok |-> TRUE, nodes |-> ns]
    ELSE LET before == NodeRows(ns, fs, k - 1, scope, cons, old)
         IN IF ~before.ok THEN before
            ELSE IF old THEN LegacyNodeRow(before.nodes, fs[k])
                 ELSE NodeRow(before.nodes, fs[k], scope, cons)

\* Lines 69-75: the flattened (from, to) pairs of the records that import.
RECURSIVE RelPairs(_)
RelPairs(fs) ==
    IF fs = <<>> THEN <<>>
    ELSE LET file == fs[Len(fs)]
             front == RelPairs(SubSeq(fs, 1, Len(fs) - 1))
         IN IF file.importFiles = Absent \/ The(file.importFiles) = <<>>
            THEN front
            ELSE front \o [i \in 1..Len(The(file.importFiles)) |->
                              [from |-> file.path, to |-> The(file.importFiles)[i]]]

\* An endpoint merged with SET projectUuid = $projectUuid on a match too.
OverwriteEndpoint(ns, p, scope) ==
    LET m == MergeNode(ns, p)
    IN [nodes |-> [n \in 1..Len(m.nodes) |->
                      IF n \in m.ids THEN [m.nodes[n] EXCEPT !.projectUuid = Some(scope)]
                      ELSE m.nodes[n]],
        ids |-> m.ids]

\* An endpoint merged on the path alone, without ON CREATE SET.
BareEndpoint(ns, p, scope) ==
    LET m == MergeNode(ns, p)
    IN [nodes |-> m.nodes, ids |-> m.ids]

\* MERGE of an edge endpoint: ON CREATE SET projectUuid = $projectUuid,
\* ON MATCH SET projectUuid = coalesce(projectUuid, $projectUuid).
MergeEndpoint(ns, p, scope) ==
    LET m == MergeNode(ns, p)
    IN [nodes |-> [n \in 1..Len(m.nodes) |->
                      IF n \in m.ids /\ m.nodes[n].projectUuid = Absent
                      THEN [m.nodes[n] EXCEPT !.projectUuid = Some(scope)]
                      ELSE m.nodes[n]],
        ids |-> m.ids]

\* CREATE (a)-[:IMPORTS]->(b): a relationship is created for every row.
CreateRels(rs, as, bs) ==
    rs (+) SetToBag(as \X bs)

\* MERGE (a)-[:IMPORTS]->(b): a relationship is created where none exists.
MergeRels(rs, as, bs) ==
    rs (+) SetToBag({e \in as \X bs : ~BagIn(e, rs)})

\* A row that writes the relationship and loses the node created for its
\* target.
DanglingEdgeRow(st, pair, scope) ==
    IF pair.from = Absent THEN [ok |-> FALSE, nodes |-> st.nodes, rels |-> st.rels]
    ELSE LET a == MergeEndpoint(st.nodes, The(pair.from), scope)
             b == MergeEndpoint(a.nodes, pair.to, scope)
         IN [ok |-> TRUE, nodes |-> a.nodes, rels |-> MergeRels(st.rels, a.ids, b.ids)]

\* A row that first deletes the relationships the importing node has.
ReplacingEdgeRow(st, pair, scope) ==
    IF pair.from = Absent THEN [ok |-> FALSE, nodes |-> st.nodes, rels |-> st.rels]
    ELSE LET a == MergeEndpoint(st.nodes, The(pair.from), scope)
             b == MergeEndpoint(a.nodes, pair.to, scope)
             kept == SetToBag({e \in BagToSet(st.rels) : e[1] \notin a.ids})
         IN [ok |-> TRUE, nodes |-> b.nodes, rels |-> MergeRels(kept, a.ids, b.ids)]

\* A row that also adds one to the counts of its two endpoints.
LiveCountingEdgeRow(st, pair, scope) ==
    IF pair.from = Absent THEN [ok |-> FALSE, nodes |-> st.nodes, rels |-> st.rels]
    ELSE LET a == MergeEndpoint(st.nodes, The(pair.from), scope)
             b == MergeEndpoint(a.nodes, pair.to, scope)
             plus(c) == Some((IF c = Absent THEN 0 ELSE The(c)) + 1)
         IN [ok |-> TRUE,
             nodes |-> [n \in 1..Len(b.nodes) |->
                          [b.nodes[n] EXCEPT
                              !.importCount = IF n \in a.ids THEN plus(@) ELSE @,
                              !.importedByCount = IF n \in b.ids THEN plus(@) ELSE @]],
             rels |-> MergeRels(st.rels, a.ids, b.ids)]

\* One row of UNWIND $pairs.
EdgeRow(st, pair, scope) ==
    IF pair.from = Absent THEN [ok |-> FALSE, nodes |-> st.nodes, rels |-> st.rels]
    ELSE LET a == MergeEndpoint(st.nodes, The(pair.from), scope)
             b == MergeEndpoint(a.nodes, pair.to, scope)
         IN [ok |-> TRUE, nodes |-> b.nodes, rels |-> MergeRels(st.rels, a.ids, b.ids)]

LegacyEdgeRow(st, pair) ==
    IF pair.from = Absent THEN [ok |-> FALSE, nodes |-> st.nodes, rels |-> st.rels]
    ELSE LET a == MergeNode(st.nodes, The(pair.from))
             b == MergeNode(a.nodes, pair.to)
         IN [ok |-> TRUE, nodes |-> b.nodes, rels |-> MergeRels(st.rels, a.ids, b.ids)]

RECURSIVE EdgeRows(_, _, _, _, _)
EdgeRows(st, ps, k, scope, old) ==
    IF k = 0 THEN [ok |-> TRUE, nodes |-> st.nodes, rels |-> st.rels]
    ELSE LET before == EdgeRows(st, ps, k - 1, scope, old)
         IN IF ~before.ok THEN before
            ELSE IF old THEN LegacyEdgeRow(before, ps[k])
                 ELSE EdgeRow(before, ps[k], scope)

\* session.executeWrite: a transaction whose function throws is rolled back.
Rollback(before, partial) == before

RECURSIVE SumOver(_, _)
SumOver(S, f) ==
    IF S = {} THEN 0
    ELSE LET x == CHOOSE y \in S : TRUE IN f[x] + SumOver(S \ {x}, f)

OutDegree(rs, n) == SumOver({e \in BagToSet(rs) : e[1] = n}, rs)

InDegree(rs, n) == SumOver({e \in BagToSet(rs) : e[2] = n}, rs)

\* The per-node statement adding the degrees to the counts the node has.
AddToCounts(ns, rs, n) ==
    LET had(c) == IF c = Absent THEN 0 ELSE The(c)
    IN [m \in 1..Len(ns) |->
           IF m = n
           THEN [ns[m] EXCEPT !.importCount = Some(had(@) + OutDegree(rs, n)),
                              !.importedByCount = Some(had(@) + InDegree(rs, n))]
           ELSE ns[m]]

\* The per-node statement with the patterns (f)-[:IMPORTS]-() that ignore
\* the direction.
SetCountsUndirected(ns, rs, n) ==
    [m \in 1..Len(ns) |->
        IF m = n THEN [ns[m] EXCEPT !.importCount = Some(OutDegree(rs, n) + InDegree(rs, n)),
                                    !.importedByCount = Some(OutDegree(rs, n) + InDegree(rs, n))]
        ELSE ns[m]]

\* Lines 137-145: the per-node statement of updateImportCounts.
SetCounts(ns, rs, n) ==
    [m \in 1..Len(ns) |->
        IF m = n THEN [ns[m] EXCEPT !.importCount = Some(OutDegree(rs, n)),
                                    !.importedByCount = Some(InDegree(rs, n))]
        ELSE ns[m]]

\* The loop of updateImportCounts, lines 136-149, over the nodes 1..k.
RECURSIVE Recount(_, _, _)
Recount(ns, rs, k) == IF k = 0 THEN ns ELSE SetCounts(Recount(ns, rs, k - 1), rs, k)

\* Lines 52-96 in a run that fails nowhere: the node upsert, the edge
\* upsert, the recount.
WholeRun(g, fs, scope) ==
    LET n == NodeRows(g.nodes, fs, Len(fs), scope, {"path", "id"}, FALSE)
        e == EdgeRows([nodes |-> n.nodes, rels |-> g.rels], RelPairs(fs),
                      Len(RelPairs(fs)), scope, FALSE)
    IN [ok |-> n.ok /\ e.ok,
        nodes |-> Recount(e.nodes, e.rels, Len(e.nodes)),
        rels |-> e.rels]

(***************************************************************************)
(* Community detection.  gds.graph.project copies the File nodes and the   *)
(* IMPORTS relationships into the graph catalog, each relationship in both *)
(* directions; gds.louvain.write labels the nodes with the communities of  *)
(* a partition of greatest modularity (the finest one where several are    *)
(* equally good: a node is moved only for a gain) and writes the label to  *)
(* clusterId.  A community is named by its least node id.                  *)
(***************************************************************************)
Adj(rs, x, y) == CopiesIn(<<x, y>>, rs) + CopiesIn(<<y, x>>, rs)

Degree(V, rs, x) == SumOver(V, [y \in V |-> Adj(rs, x, y)])

Labelings(V) == {l \in [V -> V] : \A v \in V : l[v] <= v /\ l[l[v]] = l[v]}

Communities(V, l) == {l[v] : v \in V}

\* Modularity of l, times the square of twice the number of relationships.
Modularity(V, rs, l) ==
    LET twoM == SumOver(V, [x \in V |-> Degree(V, rs, x)])
        inside(c) == SumOver({e \in V \X V : l[e[1]] = c /\ l[e[2]] = c},
                             [e \in V \X V |-> Adj(rs, e[1], e[2])])
        total(c) == SumOver({v \in V : l[v] = c}, [x \in V |-> Degree(V, rs, x)])
    IN SumOver(Communities(V, l),
               [c \in V |-> twoM * inside(c) - total(c) * total(c)])

\* All nodes in one community.
OneCommunity(V, rs) == {[v \in V |-> CHOOSE u \in V : \A w \in V : u <= w]}

Louvain(V, rs) ==
    {l \in Labelings(V) :
        \A k \in Labelings(V) :
            \/ Modularity(V, rs, k) < Modularity(V, rs, l)
            \/ /\ Modularity(V, rs, k) = Modularity(V, rs, l)
               /\ Cardinality(Communities(V, k)) <= Cardinality(Communities(V, l))}

WriteClusterId(ns, V, l) ==
    [n \in 1..Len(ns) |->
        IF n \in V THEN [ns[n] EXCEPT !.clusterId = Some(l[n])] ELSE ns[n]]

(***************************************************************************)
(* The normalizer, lines 40-44: a falsy description becomes '', and every  *)
(* record gets the id `${Date.now()}-${random suffix}`, here <<t, r>>.     *)
(* The records of one list are stamped within one millisecond t.  Suffixes *)
(* are only ever compared for equality, so those of one list are numbered  *)
(* in the order of their first use: a draw no greater than the greatest    *)
(* number so far repeats a suffix, the next number is a new one.           *)
(***************************************************************************)
MaxOf(S) == IF S = {} THEN 0 ELSE CHOOSE x \in S : \A y \in S : y <= x

RandomSuffixes(len) ==
    {rnd \in [1..len -> 1..len] :
        \A i \in 1..len : rnd[i] <= 1 + MaxOf({rnd[j] : j \in 1..(i - 1)})}

Normalize(fs, t, rnd) ==
    [i \in 1..Len(fs) |->
        [fs[i] EXCEPT !.description = IF @ = Absent \/ @ = Some("") THEN Some("") ELSE @,
                      !.id = Some(<<t, rnd[i]>>)]]

(***************************************************************************)
(* Result values of the query proxy, index.js.  A value is tagged with     *)
(* what JavaScript tells apart: an array, a plain object, the driver's     *)
(* Integer (a 64-bit two's complement integer kept as two signed 32-bit    *)
(* halves high and low), a string, null, or a native number.  A native     *)
(* number with an integer value is its sign and its magnitude in four      *)
(* digits of base 2^16, least significant first.                           *)
(***************************************************************************)
Base == 65536

\* The bits of the significand of a native number (an IEEE 754 double).
SignificandBits == 53

Null == [t |-> "null"]

Str(v) == [t |-> "string", v |-> v]

Arr(items) == [t |-> "array", items |-> items]

Obj(fields) == [t |-> "object", fields |-> fields]

Integer(high, low) == [t |-> "Integer", high |-> high, low |-> low]

Num(neg, mag) == [t |-> "number", neg |-> neg, mag |-> mag]

\* The four base 2^16 digits of the 64 bits of an Integer.
Digits(i) ==
    <<i.low % Base, (i.low \div Base) % Base, i.high % Base, (i.high \div Base) % Base>>

\* mag + 1, carried through the digits (a carry out of the last is dropped).
RECURSIVE Increment(_, _)
Increment(mag, k) ==
    IF k > Len(mag) THEN mag
    ELSE IF mag[k] + 1 < Base THEN [mag EXCEPT ![k] = @ + 1]
         ELSE Increment([mag EXCEPT ![k] = 0], k + 1)

\* The integer an Integer stands for, as sign and magnitude.
Magnitude(i) ==
    IF i.high >= 0 THEN Digits(i)
    ELSE Increment([k \in 1..4 |-> Base - 1 - Digits(i)[k]], 1)

Pow2(n) == IF n <= 0 THEN 1 ELSE 2 ^ n

BitLength(d) == IF d = 0 THEN 0 ELSE CHOOSE n \in 1..16 : Pow2(n - 1) <= d /\ d < Pow2(n)

\* The bits of a magnitude below its leading SignificandBits bits.
ExcessBits(mag) ==
    IF mag[4] = 0 THEN 0
    ELSE IF 48 + BitLength(mag[4]) > SignificandBits
         THEN 48 + BitLength(mag[4]) - SignificandBits ELSE 0

\* A magnitude rounded to the nearest double, ties to even.
RoundToDouble(mag) ==
    LET d == ExcessBits(mag)
        unit == Pow2(d)
        rest == mag[1] % unit
        kept == [mag EXCEPT ![1] = @ - rest]
        odd == (mag[1] \div unit) % 2 = 1
        up == 2 * rest > unit \/ (2 * rest = unit /\ odd)
    IN IF d = 0 \/ ~up THEN kept
       ELSE IF kept[1] + unit < Base THEN [kept EXCEPT ![1] = @ + unit]
            ELSE Increment([kept EXCEPT ![1] = 0], 2)

\* Integer.toNumber(): high * 2^32 + (low >>> 0), computed in doubles.
ToNumber(i) == Num(i.high < 0, RoundToDouble(Magnitude(i)))

\* Integers a query may return: small ones, and ones at the edges of the
\* 32, 53 and 64 bits.
StoredIntegers ==
    { Integer(0, 0), Integer(0, 1), Integer(-1, -1), Integer(0, -1), Integer(1, 0),
      Integer(2097151, -1), Integer(2097152, 0), Integer(2097152, 1),
      Integer(-2097152, -1), Integer(2147483647, -1), Integer(-2147483647 - 1, 0) }

\* Values that are not converted.
PlainValues == {Null, Str("a"), Str(""), Num(FALSE, <<7, 0, 0, 0>>)}

SmallValues == PlainValues \cup {Integer(0, 1), Integer(2097152, 1)}

\* The value of one column: a scalar, a list, a map.
ColumnValues ==
    StoredIntegers \cup PlainValues
        \cup {Arr(<<x, y>>) : x, y \in SmallValues}
        \cup {Arr(<<>>), Arr(<<Arr(<<Integer(0, 1)>>)>>)}
        \cup {Obj([k |-> x]) : x \in SmallValues}

\* r.toObject() of a record of one or two columns.
RecordObjects ==
    {Obj([n |-> c]) : c \in ColumnValues}
        \cup {Obj([n |-> c, m |-> x]) : c \in ColumnValues, x \in SmallValues}

\* result.records of the queries a request may carry.
ResultSets == SeqsUpTo(RecordObjects, MaxRows)


ErrorBody(message) == Obj([error |-> Str(message)])

\* neo4j.isInt(value)
IsInt(value) == value.t = "Integer"

\* convertNeo4jValue(value), index.js lines 11-20.
RECURSIVE ConvertNeo4jValue(_)
ConvertNeo4jValue(value) ==
    IF value.t = "array"
    THEN Arr([i \in DOMAIN value.items |-> ConvertNeo4jValue(value.items[i])])
    ELSE IF value.t \in {"object", "Integer"}
         THEN IF IsInt(value) THEN ToNumber(value)
              ELSE Obj([k \in DOMAIN value.fields |-> ConvertNeo4jValue(value.fields[k])])
         ELSE value

NoSessions == [import |-> 0, ensure |-> 0, query |-> 0]

NoGraph == [nodes |-> <<>>, rels |-> EmptyBag]

\* What a process holds of its invocation; here of one that does not exist.
NoPeer ==
    [pc |-> "idle", files |-> <<>>, projectUuid |-> Absent, todo |-> <<>>, err |-> "none",
     opened |-> NoSessions, closed |-> NoSessions, exitStatus |-> Absent, outcome |-> "none",
     jsonData |-> <<>>]

VARIABLES
    nodes,        \* the File nodes of the store
    rels,         \* the IMPORTS relationships of the store
    constraints,  \* the properties of File under a uniqueness constraint
    projection,   \* the graph catalog entry 'importsGraph', if any
    now,          \* Date.now() as the last invocation read it
    runs,         \* the invocations started so far
    submitted,    \* the records handed to them so far
    importer,     \* the script of the current invocation
    pc,           \* where the current invocation stands
    files,        \* its records (the caller's objects, normalized in place)
    projectUuid,  \* its project scope
    todo,         \* updateImportCounts: the node ids still to recount
    err,          \* the step of the invocation that threw, "none" so far
    opened,       \* sessions opened per kind, in the current operation
    closed,       \* session.close() calls per kind, in the current operation
    exitStatus,   \* the exit status of the process, once it has exited
    outcome,      \* what the caller of importRepo sees of its promise
    qpc,          \* where the request handler of the query proxy stands
    qStatus,      \* the HTTP status it answered with
    qRows,        \* the records session.run gave it, as objects
    qBody,        \* the JSON body it answered with
    atStart,      \* the nodes and relationships when the current invocation started
    jsonData,     \* the array the entry point parsed: the caller's record objects
    peer          \* a second invocation under way in a process of its own, if any

vars == <<nodes, rels, constraints, projection, now, runs, submitted, importer, pc,
          files, projectUuid, todo, err, opened, closed, exitStatus, outcome, qpc, qStatus,
          qRows, qBody, atStart, jsonData, peer>>

store == <<nodes, rels, constraints, projection>>

proxy == <<qpc, qStatus, qRows, qBody>>

Init ==
    /\ nodes = <<>>
    /\ rels = EmptyBag
    /\ constraints = {}
    /\ projection = Absent
    /\ now = 0
    /\ runs = 0
    /\ submitted = 0
    /\ importer = "none"
    /\ pc = "idle"
    /\ files = <<>>
    /\ projectUuid = Absent
    /\ todo = <<>>
    /\ err = "none"
    /\ opened = NoSessions
    /\ closed = NoSessions
    /\ exitStatus = Absent
    /\ outcome = "none"
    /\ qpc = "idle"
    /\ qStatus = 0
    /\ qRows = Absent
    /\ qBody = Absent
    /\ atStart = NoGraph
    /\ jsonData = <<>>
    /\ peer = NoPeer

Resting == pc \in {"idle", "exited"} /\ qpc = "idle"

Scoped == importer = "tree-to-graph"

Legacy == importer = "legacy"

\* A step threw: control goes to the catch block, which logs and rethrows,
\* and from there to the finally block.
Throw(step) ==
    /\ err' = step
    /\ pc' = "finally"

Failed == err # "none"

\* importRepo without its first line: an empty list goes through the steps.
ImportRepoUnguarded ==
    /\ Resting
    /\ runs < MaxRuns
    /\ \E fs \in FileLists, p \in Projects :
       \E rnd \in RandomSuffixes(Len(fs)) :
          /\ submitted + Len(fs) <= MaxRecords
          /\ submitted' = submitted + Len(fs)
          /\ now' = now + 1
          /\ runs' = runs + 1
          /\ importer' = "tree-to-graph"
          /\ err' = "none"
          /\ todo' = <<>>
          /\ closed' = NoSessions
          /\ pc' = "ensure"
          /\ atStart' = [nodes |-> nodes, rels |-> rels]
          /\ files' = Normalize(fs, now + 1, rnd)
          /\ projectUuid' = Some(p)
          /\ opened' = [NoSessions EXCEPT !.import = 1]
          /\ outcome' = "pending"
          /\ exitStatus' = Absent
    /\ jsonData' = files'
    /\ UNCHANGED <<store, proxy, peer>>

(***************************************************************************)
(* importRepo(files, projectUuid), lines 38-46: return on an empty list;   *)
(* otherwise normalize the records and open the session.                   *)
(***************************************************************************)
ImportRepo ==
    /\ Resting
    /\ runs < MaxRuns
    /\ \E fs \in FileLists, p \in Projects :
       \E rnd \in RandomSuffixes(Len(fs)) :
          /\ submitted + Len(fs) <= MaxRecords
          /\ submitted' = submitted + Len(fs)
          /\ now' = now + 1
          /\ runs' = runs + 1
          /\ importer' = "tree-to-graph"
          /\ err' = "none"
          /\ todo' = <<>>
          /\ closed' = NoSessions
          /\ IF fs = <<>>
             THEN /\ pc' = "exited"
                  /\ files' = <<>>
                  /\ projectUuid' = Absent
                  /\ opened' = NoSessions
                  /\ outcome' = "resolved"
                  /\ exitStatus' = Some(0)
                  /\ atStart' = NoGraph
             ELSE /\ pc' = "ensure"
                  /\ atStart' = [nodes |-> nodes, rels |-> rels]
                  /\ files' = Normalize(fs, now + 1, rnd)
                  /\ projectUuid' = Some(p)
                  /\ opened' = [NoSessions EXCEPT !.import = 1]
                  /\ outcome' = "pending"
                  /\ exitStatus' = Absent
    /\ jsonData' = files'
    /\ UNCHANGED <<store, proxy, peer>>

\* The importer without a project scope: importRepo(files), lines 42-46.
LegacyImportRepo ==
    /\ Resting
    /\ runs < MaxRuns
    /\ \E fs \in FileLists :
          /\ submitted + Len(fs) <= MaxRecords
          /\ submitted' = submitted + Len(fs)
          /\ runs' = runs + 1
          /\ importer' = "legacy"
          /\ err' = "none"
          /\ todo' = <<>>
          /\ closed' = NoSessions
          /\ projectUuid' = Absent
          /\ files' = fs
          /\ IF fs = <<>>
             THEN /\ pc' = "exited"
                  /\ opened' = NoSessions
                  /\ outcome' = "resolved"
                  /\ exitStatus' = Some(0)
                  /\ atStart' = NoGraph
             ELSE /\ pc' = "ensure"
                  /\ atStart' = [nodes |-> nodes, rels |-> rels]
                  /\ opened' = [NoSessions EXCEPT !.import = 1]
                  /\ outcome' = "pending"
                  /\ exitStatus' = Absent
    /\ jsonData' = files'
    /\ UNCHANGED <<store, now, proxy, peer>>

\* CREATE CONSTRAINT IF NOT EXISTS ... IS UNIQUE fails on data that already
\* breaks the constraint.
CanRequireUnique(ns) ==
    \A m, n \in 1..Len(ns) :
        m # n => /\ ns[m].path # ns[n].path
                 /\ ns[m].id = Absent \/ ns[m].id # ns[n].id

\* The constraint on the path alone.
DeclaredOnPath == {"path"}

\* The constraints ensureConstraint declares.
Declared == IF Legacy THEN {"path"} ELSE {"path", "id"}

(***************************************************************************)
(* ensureConstraint(), lines 25-36: its own session, one write             *)
(* transaction, the session closed in the finally block.                   *)
(***************************************************************************)
EnsureConstraint ==
    /\ pc = "ensure"
    /\ CanRequireUnique(nodes)
    /\ constraints' = constraints \cup Declared
    /\ opened' = [opened EXCEPT !.ensure = @ + 1]
    /\ closed' = [closed EXCEPT !.ensure = @ + 1]
    /\ pc' = "mergeFiles"
    /\ UNCHANGED <<nodes, rels, projection, now, runs, submitted, atStart, jsonData, peer, importer, files, projectUuid,
                   todo, err, exitStatus, outcome, proxy>>

EnsureConstraintFails ==
    /\ pc = "ensure"
    /\ constraints' = Rollback(constraints, constraints \cup Declared)
    /\ opened' = [opened EXCEPT !.ensure = @ + 1]
    /\ closed' = [closed EXCEPT !.ensure = @ + 1]
    /\ Throw("ensureConstraint")
    /\ UNCHANGED <<nodes, rels, projection, now, runs, submitted, atStart, jsonData, peer, importer, files, projectUuid,
                   todo, exitStatus, outcome, proxy>>

Scope == IF projectUuid = Absent THEN "" ELSE The(projectUuid)

(***************************************************************************)
(* Step 1, lines 52-66: UNWIND $files ... MERGE ... SET, one transaction.  *)
(***************************************************************************)
MergeFiles ==
    /\ pc = "mergeFiles"
    /\ LET done == NodeRows(nodes, files, Len(files), Scope, constraints, Legacy)
       IN /\ done.ok
          /\ nodes' = done.nodes
    /\ pc' = "mergeImports"
    /\ UNCHANGED <<rels, constraints, projection, now, runs, submitted, atStart, jsonData, peer, importer, files,
                   projectUuid, todo, err, opened, closed, exitStatus, outcome, proxy>>

\* The statement fails at some row (a row that cannot be written, or the
\* connection lost), after the rows before it have been written.
MergeFilesFails ==
    /\ pc = "mergeFiles"
    /\ \E k \in 0..Len(files) :
          nodes' = Rollback(nodes, NodeRows(nodes, files, k, Scope, constraints, Legacy).nodes)
    /\ Throw("mergeFiles")
    /\ UNCHANGED <<rels, constraints, projection, now, runs, submitted, atStart, jsonData, peer, importer, files,
                   projectUuid, todo, opened, closed, exitStatus, outcome, proxy>>

\* Where control goes after step 2.
AfterImports == IF Legacy THEN "finally" ELSE "listFiles"

\* The edge upsert not awaited: the next step starts when only the first
\* rows of the statement are written.
MergeImportsNotAwaited ==
    /\ pc = "mergeImports"
    /\ \E k \in 0..Len(RelPairs(files)) :
          LET done == EdgeRows([nodes |-> nodes, rels |-> rels], RelPairs(files),
                               k, Scope, Legacy)
          IN /\ done.ok
             /\ nodes' = done.nodes
             /\ rels' = done.rels
    /\ pc' = AfterImports
    /\ UNCHANGED <<constraints, projection, now, runs, submitted, atStart, jsonData, peer, importer, files, projectUuid,
                   todo, err, opened, closed, exitStatus, outcome, proxy>>

(***************************************************************************)
(* Step 2, lines 69-93: the pairs, and when there are any, UNWIND $pairs   *)
(* ... MERGE ... in one transaction.                                       *)
(***************************************************************************)
MergeImports ==
    /\ pc = "mergeImports"
    /\ LET done == EdgeRows([nodes |-> nodes, rels |-> rels], RelPairs(files),
                            Len(RelPairs(files)), Scope, Legacy)
       IN /\ done.ok
          /\ nodes' = done.nodes
          /\ rels' = done.rels
    /\ pc' = AfterImports
    /\ UNCHANGED <<constraints, projection, now, runs, submitted, atStart, jsonData, peer, importer, files, projectUuid,
                   todo, err, opened, closed, exitStatus, outcome, proxy>>

MergeImportsFails ==
    /\ pc = "mergeImports"
    /\ RelPairs(files) # <<>>
    /\ \E k \in 0..Len(RelPairs(files)) :
          LET partial == EdgeRows([nodes |-> nodes, rels |-> rels], RelPairs(files),
                                  k, Scope, Legacy)
          IN /\ nodes' = Rollback(nodes, partial.nodes)
             /\ rels' = Rollback(rels, partial.rels)
    /\ Throw("mergeImports")
    /\ UNCHANGED <<constraints, projection, now, runs, submitted, atStart, jsonData, peer, importer, files, projectUuid,
                   todo, opened, closed, exitStatus, outcome, proxy>>

\* The recount over the nodes of the records of the batch alone.
ListOwnFiles ==
    /\ pc = "listFiles"
    /\ todo' = SelectSeq([k \in 1..Len(nodes) |-> k],
                          LAMBDA n : \E i \in 1..Len(files) : files[i].path = Some(nodes[n].path))
    /\ pc' = "updateCounts"
    /\ UNCHANGED <<store, now, runs, submitted, atStart, jsonData, peer, importer, files, projectUuid, err, opened,
                   closed, exitStatus, outcome, proxy>>

(***************************************************************************)
(* updateImportCounts(session), lines 125-153: read the ids of all File    *)
(* nodes, then one statement per node, each its own transaction.           *)
(***************************************************************************)
ListFiles ==
    /\ pc = "listFiles"
    /\ todo' = [i \in 1..Len(nodes) |-> i]
    /\ pc' = IF nodes = <<>> THEN "drop" ELSE "updateCounts"
    /\ UNCHANGED <<store, now, runs, submitted, atStart, jsonData, peer, importer, files, projectUuid, err, opened,
                   closed, exitStatus, outcome, proxy>>

UpdateCount ==
    /\ pc = "updateCounts"
    /\ todo # <<>>
    /\ nodes' = SetCounts(nodes, rels, Head(todo))
    /\ todo' = Tail(todo)
    /\ pc' = IF Tail(todo) = <<>> THEN "drop" ELSE "updateCounts"
    /\ UNCHANGED <<rels, constraints, projection, now, runs, submitted, atStart, jsonData, peer, importer, files,
                   projectUuid, err, opened, closed, exitStatus, outcome, proxy>>

\* The loop inside one transaction: a failure takes back the counts the
\* statements before it have written.
RecountRolledBack ==
    /\ pc \in {"listFiles", "updateCounts"}
    /\ nodes' = [n \in 1..Len(nodes) |->
                    IF n <= Len(atStart.nodes)
                    THEN [nodes[n] EXCEPT !.importCount = atStart.nodes[n].importCount,
                                          !.importedByCount = atStart.nodes[n].importedByCount]
                    ELSE [nodes[n] EXCEPT !.importCount = Absent, !.importedByCount = Absent]]
    /\ Throw("updateImportCounts")
    /\ UNCHANGED <<rels, constraints, projection, now, runs, submitted, atStart, jsonData, peer, importer, files,
                   projectUuid, todo, opened, closed, exitStatus, outcome, proxy>>

\* The list of nodes cannot be read, or the statement for Head(todo) fails.
UpdateImportCountsFails ==
    /\ pc \in {"listFiles", "updateCounts"}
    /\ Throw("updateImportCounts")
    /\ UNCHANGED <<store, now, runs, submitted, atStart, jsonData, peer, importer, files, projectUuid, todo, opened,
                   closed, exitStatus, outcome, proxy>>

(***************************************************************************)
(* Community detection, lines 97-113: three procedure calls in one write   *)
(* transaction.  The graph catalog is not transactional: what a call did   *)
(* to it stays when a later call fails.                                    *)
(***************************************************************************)
\* CALL gds.graph.drop('importsGraph', true): an error when it is missing.
DropFailIfMissing ==
    /\ pc = "drop"
    /\ projection # Absent
    /\ projection' = Absent
    /\ pc' = "project"
    /\ UNCHANGED <<nodes, rels, constraints, now, runs, submitted, atStart, jsonData, peer, importer, files, projectUuid,
                   todo, err, opened, closed, exitStatus, outcome, proxy>>

\* CALL gds.graph.drop('importsGraph', false): no error when it is missing.
DropProjection ==
    /\ pc = "drop"
    /\ projection' = Absent
    /\ pc' = "project"
    /\ UNCHANGED <<nodes, rels, constraints, now, runs, submitted, atStart, jsonData, peer, importer, files, projectUuid,
                   todo, err, opened, closed, exitStatus, outcome, proxy>>

\* CALL gds.graph.project('importsGraph', 'File', {IMPORTS: ... UNDIRECTED}):
\* an error when a graph of that name exists.
ProjectGraph ==
    /\ pc = "project"
    /\ projection = Absent
    /\ projection' = Some([nodes |-> 1..Len(nodes), rels |-> rels])
    /\ pc' = "louvain"
    /\ UNCHANGED <<nodes, rels, constraints, now, runs, submitted, atStart, jsonData, peer, importer, files, projectUuid,
                   todo, err, opened, closed, exitStatus, outcome, proxy>>

\* The algorithm followed by gds.graph.drop('importsGraph').
LouvainWriteThenDrop ==
    /\ pc = "louvain"
    /\ projection # Absent
    /\ \E l \in Louvain(The(projection).nodes, The(projection).rels) :
          nodes' = WriteClusterId(nodes, The(projection).nodes, l)
    /\ projection' = Absent
    /\ pc' = "finally"
    /\ UNCHANGED <<rels, constraints, now, runs, submitted, atStart, jsonData, peer, importer, files,
                   projectUuid, todo, err, opened, closed, exitStatus, outcome, proxy>>

\* CALL gds.louvain.write('importsGraph', {writeProperty: 'clusterId'}),
\* then the return from the try block.
LouvainWrite ==
    /\ pc = "louvain"
    /\ projection # Absent
    /\ \E l \in Louvain(The(projection).nodes, The(projection).rels) :
          nodes' = WriteClusterId(nodes, The(projection).nodes, l)
    /\ pc' = "finally"
    /\ UNCHANGED <<rels, constraints, projection, now, runs, submitted, atStart, jsonData, peer, importer, files,
                   projectUuid, todo, err, opened, closed, exitStatus, outcome, proxy>>

\* The recount done inside the transaction of the community detection: a
\* failure rolls the counts back.
DetectionFailureUndoesCounts ==
    /\ pc \in {"drop", "project", "louvain"}
    /\ nodes' = [n \in 1..Len(nodes) |->
                    [nodes[n] EXCEPT !.importCount = Absent, !.importedByCount = Absent]]
    /\ Throw("detectCommunities")
    /\ UNCHANGED <<rels, constraints, projection, now, runs, submitted, atStart, jsonData, peer, importer, files,
                   projectUuid, todo, opened, closed, exitStatus, outcome, proxy>>

\* A call fails, or the transaction fails to commit.  The library writes
\* clusterId in transactions of its own, so a failure after the write
\* leaves the labels written.
DetectCommunitiesFails ==
    /\ pc \in {"drop", "project", "louvain"}
    /\ \/ UNCHANGED nodes
       \/ /\ pc = "louvain"
          /\ projection # Absent
          /\ \E l \in Louvain(The(projection).nodes, The(projection).rels) :
                nodes' = WriteClusterId(nodes, The(projection).nodes, l)
    /\ Throw("detectCommunities")
    /\ UNCHANGED <<rels, constraints, projection, now, runs, submitted, atStart, jsonData, peer, importer, files,
                   projectUuid, todo, opened, closed, exitStatus, outcome, proxy>>

\* What process.exit(code) in the finally block leaves of the promise
\* importRepo returned: the process ends before the promise settles.
ExitInFinally(code) == [status |-> Some(code), outcome |-> "pending"]

\* The end of a process that returns from the finally block: the promise
\* settles, and a rejection nobody handles ends the process with status 1.
SettleAndExit ==
    IF Failed THEN [status |-> Some(1), outcome |-> "rejected"]
    ELSE [status |-> Some(0), outcome |-> "resolved"]

\* Lines 119-122 (and lines 92-96 of the importer without a scope).
ProcessEnd == IF Legacy THEN SettleAndExit ELSE ExitInFinally(0)

\* session.close() at the end of the try block in place of the finally
\* block: a run that failed leaves without closing.
CloseOnSuccess ==
    /\ pc = "finally"
    /\ closed' = [closed EXCEPT !.import = IF Failed THEN @ ELSE @ + 1]
    /\ exitStatus' = ProcessEnd.status
    /\ outcome' = ProcessEnd.outcome
    /\ pc' = "exited"
    /\ files' = <<>>
    /\ projectUuid' = Absent
    /\ todo' = <<>>
    /\ atStart' = NoGraph
    /\ jsonData' = <<>>
    /\ UNCHANGED <<store, now, runs, submitted, importer, err, opened, proxy, peer>>

(***************************************************************************)
(* The finally block: close the session; tree-to-graph.js then calls       *)
(* process.exit(0).  The memory of the process is gone with it.            *)
(***************************************************************************)
Finally ==
    /\ pc = "finally"
    /\ closed' = [closed EXCEPT !.import = @ + 1]
    /\ exitStatus' = ProcessEnd.status
    /\ outcome' = ProcessEnd.outcome
    /\ pc' = "exited"
    /\ files' = <<>>
    /\ projectUuid' = Absent
    /\ todo' = <<>>
    /\ atStart' = NoGraph
    /\ jsonData' = <<>>
    /\ UNCHANGED <<store, now, runs, submitted, importer, err, opened, proxy, peer>>

(***************************************************************************)
(* POST /api/run-query, index.js lines 28-47.  The proxy is a process of   *)
(* its own that shares only the store with the importers; a request is     *)
(* served between two runs of an importer.                                 *)
(***************************************************************************)
QueryReceive ==
    /\ Resting
    /\ \E hasQuery \in BOOLEAN :
          IF hasQuery
          THEN /\ qpc' = "run"
               /\ qStatus' = 0
               /\ qBody' = Absent
               /\ opened' = [opened EXCEPT !.query = 1]
               /\ closed' = [closed EXCEPT !.query = 0]
          ELSE /\ qpc' = "sent"
               /\ qStatus' = 400
               /\ qBody' = Some(ErrorBody("Missing query"))
               /\ opened' = [opened EXCEPT !.query = 0]
               /\ closed' = [closed EXCEPT !.query = 0]
    /\ qRows' = Absent
    /\ UNCHANGED <<store, now, runs, submitted, atStart, jsonData, peer, importer, pc, files, projectUuid, todo, err,
                   exitStatus, outcome>>

\* The records of MATCH (f:File) RETURN count(f) AS n, each as r.toObject().
CountFiles == {<<Obj([n |-> Integer(0, Len(nodes))])>>}

\* Lines 36-43: the query runs, giving one of the results, and the converted
\* rows are sent; or it throws and the catch block answers 500.
QueryRunOn(results) ==
    /\ qpc = "run"
    /\ \/ \E rows \in results :
             /\ qRows' = Some(rows)
             /\ qBody' = Some(Arr([i \in 1..Len(rows) |-> ConvertNeo4jValue(rows[i])]))
             /\ qStatus' = 200
       \/ /\ qRows' = Absent
          /\ qBody' = Some(ErrorBody("err.message"))
          /\ qStatus' = 500
    /\ qpc' = "finally"
    /\ UNCHANGED <<store, now, runs, submitted, atStart, jsonData, peer, importer, pc, files, projectUuid, todo, err,
                   opened, closed, exitStatus, outcome>>

QueryRun == QueryRunOn(CountFiles)

\* The same for a request with any query.
QueryRunAny == QueryRunOn(ResultSets)

QueryFinally ==
    /\ qpc = "finally"
    /\ closed' = [closed EXCEPT !.query = @ + 1]
    /\ qpc' = "sent"
    /\ UNCHANGED <<store, now, runs, submitted, atStart, jsonData, peer, importer, pc, files, projectUuid, todo, err,
                   opened, exitStatus, outcome, qStatus, qRows, qBody>>

\* The handler has returned; its session object is garbage.
QueryEnd ==
    /\ qpc = "sent"
    /\ qpc' = "idle"
    /\ qStatus' = 0
    /\ qRows' = Absent
    /\ qBody' = Absent
    /\ opened' = [opened EXCEPT !.query = 0]
    /\ closed' = [closed EXCEPT !.query = 0]
    /\ UNCHANGED <<store, now, runs, submitted, atStart, jsonData, peer, importer, pc, files, projectUuid, todo, err,
                   exitStatus, outcome>>

Next ==
    \/ ImportRepo
    \/ LegacyImportRepo
    \/ EnsureConstraint
    \/ EnsureConstraintFails
    \/ MergeFiles
    \/ MergeFilesFails
    \/ MergeImports
    \/ MergeImportsFails
    \/ ListFiles
    \/ UpdateCount
    \/ UpdateImportCountsFails
    \/ DropProjection
    \/ ProjectGraph
    \/ LouvainWrite
    \/ DetectCommunitiesFails
    \/ Finally
    \/ QueryReceive
    \/ QueryRun
    \/ QueryFinally
    \/ QueryEnd

Spec == Init /\ [][Next]_vars

(***************************************************************************)
(* The community detection of a first run, on lists of up to GraphSize     *)
(* records that import among themselves: record i imports some of the      *)
(* records i + 1 and i + 2.  The run has upserted and recounted.           *)
(***************************************************************************)
EdgePool(n) == {e \in (1..n) \X (1..n) : e[1] < e[2] /\ e[2] <= e[1] + 2}

GraphRecords(n, edges) ==
    [i \in 1..n |->
        [path |-> Some(PathPool[i]),
         importFiles |-> Some([k \in 1..Len(SelectSeq(<<i + 1, i + 2>>, LAMBDA j : <<i, j>> \in edges)) |->
                                 PathPool[SelectSeq(<<i + 1, i + 2>>, LAMBDA j : <<i, j>> \in edges)[k]]]),
         externalImports |-> Some(<<"fs">>), name |-> Absent, loc |-> Some(10),
         description |-> Some("d"), id |-> Absent]]

DetectionInit ==
    \E n \in 1..GraphSize : \E edges \in SUBSET EdgePool(n) :
        LET fs == Normalize(GraphRecords(n, edges), 1, [i \in 1..n |-> i])
            run == WholeRun(NoGraph, fs, "P1")
        IN /\ nodes = run.nodes
           /\ rels = run.rels
           /\ files = fs
           /\ submitted = n
    /\ constraints = {"path", "id"}
    /\ projection = Absent
    /\ now = 1
    /\ runs = 1
    /\ importer = "tree-to-graph"
    /\ pc = "drop"
    /\ projectUuid = Some("P1")
    /\ todo = <<>>
    /\ err = "none"
    /\ opened = [NoSessions EXCEPT !.import = 1, !.ensure = 1]
    /\ closed = [NoSessions EXCEPT !.ensure = 1]
    /\ exitStatus = Absent
    /\ outcome = "pending"
    /\ qpc = "idle"
    /\ qStatus = 0
    /\ qRows = Absent
    /\ qBody = Absent
    /\ atStart = NoGraph
    /\ jsonData = files
    /\ peer = NoPeer

DetectionNext ==
    \/ DropProjection
    \/ ProjectGraph
    \/ LouvainWrite
    \/ DetectCommunitiesFails
    \/ Finally

DetectionSpec == DetectionInit /\ [][DetectionNext]_vars

(***************************************************************************)
(* The query proxy alone, serving requests with any query.                 *)
(***************************************************************************)
ProxyNext ==
    \/ QueryReceive
    \/ QueryRunAny
    \/ QueryFinally
    \/ QueryEnd

ProxySpec == Init /\ [][ProxyNext]_vars

(***************************************************************************)
(* The normalizer alone, lines 40-44, on every list a caller may hand to   *)
(* importRepo: the parameter files is the caller's array jsonData.  The    *)
(* callback of map writes description and id on the object it is given and *)
(* returns that object: the new array holds the caller's objects.          *)
(***************************************************************************)
NormalizerInit ==
    /\ \E fs \in FileLists \ {<<>>}, p \in Projects :
          /\ jsonData = fs
          /\ files = fs
          /\ projectUuid = Some(p)
          /\ submitted = Len(fs)
    /\ pc = "normalize"
    /\ importer = "tree-to-graph"
    /\ runs = 1
    /\ now = 0
    /\ nodes = <<>>
    /\ rels = EmptyBag
    /\ constraints = {}
    /\ projection = Absent
    /\ todo = <<>>
    /\ err = "none"
    /\ opened = NoSessions
    /\ closed = NoSessions
    /\ exitStatus = Absent
    /\ outcome = "pending"
    /\ qpc = "idle"
    /\ qStatus = 0
    /\ qRows = Absent
    /\ qBody = Absent
    /\ atStart = NoGraph
    /\ peer = NoPeer

\* Lines 40-46: the records normalized, the session opened.
NormalizeRecords ==
    /\ pc = "normalize"
    /\ \E rnd \in RandomSuffixes(Len(files)) : files' = Normalize(files, now + 1, rnd)
    /\ jsonData' = files'
    /\ now' = now + 1
    /\ opened' = [opened EXCEPT !.import = 1]
    /\ pc' = "ensure"
    /\ UNCHANGED <<store, runs, submitted, atStart, importer, projectUuid, todo, err, closed,
                   exitStatus, outcome, proxy, peer>>

NormalizerNext == NormalizeRecords

NormalizerSpec == NormalizerInit /\ [][NormalizerNext]_vars

(***************************************************************************)
(* Two invocations of tree-to-graph.js, each a process of its own, on one  *)
(* store.  A process sends one statement at a time; the statements of the  *)
(* two reach the store in any order.  The variables of an invocation hold  *)
(* the process whose statement comes next, peer holds the other one.       *)
(***************************************************************************)
InterleavedRecords == {r \in WellFormed : r.name = Absent}

PriorRecord ==
    [path |-> Some("a"), importFiles |-> Some(<<"b">>), externalImports |-> Some(<<"fs">>),
     name |-> Absent, loc |-> Some(10), description |-> Some("d"), id |-> Absent]

\* The store after the importer without a scope has imported PriorRecord.
LegacyStore ==
    LET n == NodeRows(<<>>, <<PriorRecord>>, 1, "", {"path"}, TRUE)
        e == EdgeRows([nodes |-> n.nodes, rels |-> EmptyBag], RelPairs(<<PriorRecord>>),
                      1, "", TRUE)
    IN [nodes |-> e.nodes, rels |-> e.rels, constraints |-> {"path"}]

\* The store after tree-to-graph.js has imported it up to the recount.
ScopedStore ==
    LET run == WholeRun(NoGraph, Normalize(<<PriorRecord>>, 1, <<1>>), "P1")
    IN [nodes |-> run.nodes, rels |-> run.rels, constraints |-> {"path", "id"}]

PriorStores ==
    {[nodes |-> <<>>, rels |-> EmptyBag, constraints |-> {}], LegacyStore, ScopedStore}

\* A process that has called importRepo(fs, p) at time t: returned from an
\* empty list, or about to call ensureConstraint.
Started(fs, p, t) ==
    IF fs = <<>>
    THEN [NoPeer EXCEPT !.pc = "exited", !.exitStatus = Some(0), !.outcome = "resolved"]
    ELSE [pc |-> "ensure",
          files |-> Normalize(fs, t, [i \in 1..Len(fs) |-> i]),
          projectUuid |-> Some(p),
          todo |-> <<>>,
          err |-> "none",
          opened |-> [NoSessions EXCEPT !.import = 1],
          closed |-> NoSessions,
          exitStatus |-> Absent,
          outcome |-> "pending",
          jsonData |-> Normalize(fs, t, [i \in 1..Len(fs) |-> i])]

InterleavedInit ==
    /\ \E prior \in PriorStores, p \in Projects :
       \E fs1 \in SeqsUpTo(InterleavedRecords, MaxFiles),
          fs2 \in SeqsUpTo(InterleavedRecords, PeerFiles) :
          LET mine == Started(fs1, "P1", 2)
          IN /\ nodes = prior.nodes
             /\ rels = prior.rels
             /\ constraints = prior.constraints
             /\ atStart = [nodes |-> prior.nodes, rels |-> prior.rels]
             /\ submitted = Len(fs1) + Len(fs2)
             /\ pc = mine.pc
             /\ files = mine.files
             /\ projectUuid = mine.projectUuid
             /\ todo = mine.todo
             /\ err = mine.err
             /\ opened = mine.opened
             /\ closed = mine.closed
             /\ exitStatus = mine.exitStatus
             /\ outcome = mine.outcome
             /\ jsonData = mine.jsonData
             /\ peer = Started(fs2, p, 3)
    /\ projection = Absent
    /\ now = 3
    /\ runs = 2
    /\ importer = "tree-to-graph"
    /\ qpc = "idle"
    /\ qStatus = 0
    /\ qRows = Absent
    /\ qBody = Absent

\* The next statement to reach the store is one of the other process.
Switch ==
    /\ peer.pc \notin {"idle", "exited"}
    /\ peer' = [pc |-> pc, files |-> files, projectUuid |-> projectUuid, todo |-> todo,
                err |-> err, opened |-> opened, closed |-> closed,
                exitStatus |-> exitStatus, outcome |-> outcome, jsonData |-> jsonData]
    /\ pc' = peer.pc
    /\ files' = peer.files
    /\ projectUuid' = peer.projectUuid
    /\ todo' = peer.todo
    /\ err' = peer.err
    /\ opened' = peer.opened
    /\ closed' = peer.closed
    /\ exitStatus' = peer.exitStatus
    /\ outcome' = peer.outcome
    /\ jsonData' = peer.jsonData
    /\ UNCHANGED <<store, now, runs, submitted, atStart, importer, proxy>>

InterleavedNext ==
    \/ EnsureConstraint
    \/ MergeFiles
    \/ MergeImports
    \/ ListFiles
    \/ UpdateCount
    \/ DropProjection
    \/ ProjectGraph
    \/ LouvainWrite
    \/ DetectCommunitiesFails
    \/ Finally
    \/ Switch

InterleavedSpec == InterleavedInit /\ [][InterleavedNext]_vars

(***************************************************************************)
(* Vocabulary of the properties.                                           *)
(***************************************************************************)
PathsOf(ns) == {ns[n].path : n \in 1..Len(ns)}

EdgePaths(ns, rs) == {<<ns[e[1]].path, ns[e[2]].path>> : e \in BagToSet(rs)}

NoDuplicateNodes(ns) == \A m, n \in 1..Len(ns) : m # n => ns[m].path # ns[n].path

NoDuplicateEdges(rs) == \A e \in BagToSet(rs) : CopiesIn(e, rs) = 1

\* The relationships leaving and entering node n, counted on the bag itself.
NumOut(n) == BagCardinality([e \in {x \in BagToSet(rels) : x[1] = n} |-> rels[e]])

NumIn(n) == BagCardinality([e \in {x \in BagToSet(rels) : x[2] = n} |-> rels[e]])

CountsMatchDegrees ==
    \A n \in 1..Len(nodes) :
        /\ nodes[n].importCount = Some(NumOut(n))
        /\ nodes[n].importedByCount = Some(NumIn(n))

\* The scoped importer has just finished step 2 (or skipped it: no pairs).
AfterUpserts == Scoped /\ pc = "listFiles"

\* An invocation of tree-to-graph.js has ended without any step throwing.
RunSucceeded == Scoped /\ pc = "exited" /\ ~Failed

\* ... and it had records, so that it ran the steps of the pipeline.
PipelineCompleted == RunSucceeded /\ opened.import = 1

\* The paths the records of the current list import.
Targets == {RelPairs(files)[i].to : i \in 1..Len(RelPairs(files))}

RecordPaths == UNION {files[i].path : i \in 1..Len(files)}

(***************************************************************************)
(* C1  Idempotent upsert: in the state the node upsert and the edge upsert *)
(* of a list leave, running both again on the same list succeeds and       *)
(* leaves the same File nodes (by path, none twice) and the same IMPORTS   *)
(* edges (by ordered pair of paths, none twice).                           *)
(***************************************************************************)
IdempotentUpsert ==
    AfterUpserts =>
        LET n2 == NodeRows(nodes, files, Len(files), Scope, constraints, FALSE)
            e2 == EdgeRows([nodes |-> n2.nodes, rels |-> rels], RelPairs(files),
                           Len(RelPairs(files)), Scope, FALSE)
        IN /\ n2.ok /\ e2.ok
           /\ Len(e2.nodes) = Len(nodes)
           /\ PathsOf(e2.nodes) = PathsOf(nodes)
           /\ NoDuplicateNodes(e2.nodes)
           /\ BagCardinality(e2.rels) = BagCardinality(rels)
           /\ EdgePaths(e2.nodes, e2.rels) = EdgePaths(nodes, rels)
           /\ NoDuplicateEdges(e2.rels)
           /\ NoDuplicateNodes(nodes) /\ NoDuplicateEdges(rels)

\* Both upserts have run on a list of two records that import, over a store
\* that held a node of another run.
IdempotentUpsertWitness ==
    /\ AfterUpserts
    /\ Len(files) = 2
    /\ Len(RelPairs(files)) = 2
    /\ BagCardinality(rels) = 2
    /\ \E n \in 1..Len(nodes) : nodes[n].projectUuid # Some(Scope)

(***************************************************************************)
(* C2 (as stated)  When an invocation of the pipeline ends successfully,   *)
(* every File node has importCount equal to its number of outgoing and     *)
(* importedByCount equal to its number of incoming IMPORTS edges.          *)
(***************************************************************************)
DegreeCountsAfterEveryRun == RunSucceeded => CountsMatchDegrees

(***************************************************************************)
(* C2 (amended)  The same, when the invocation had a non-empty list of     *)
(* records: an empty list returns before any step and recounts nothing.    *)
(***************************************************************************)
DegreeCountsAfterPipeline == PipelineCompleted => CountsMatchDegrees

\* A completed run with a node of out-degree 2, a node that came only as an
\* import target, and nodes of two projects.
DegreeCountsWitness ==
    /\ PipelineCompleted
    /\ \E n \in 1..Len(nodes) : nodes[n].importCount = Some(2)
    /\ \E n \in 1..Len(nodes) :
          /\ nodes[n].id = Absent
          /\ nodes[n].importedByCount = Some(1)
          /\ \E m \in 1..Len(nodes) : nodes[m].projectUuid # nodes[n].projectUuid

(***************************************************************************)
(* C5  In every reachable state each path has at most one File node.       *)
(***************************************************************************)
NoDuplicatePaths == NoDuplicateNodes(nodes)

\* A record whose path another record of the list imports, after both
\* upserts of a second run.
NoDuplicatePathsWitness ==
    /\ AfterUpserts
    /\ runs = 2
    /\ \E p \in RecordPaths \cap Targets : Cardinality(Matching(nodes, p)) = 1
    /\ Len(nodes) = NumPaths

(***************************************************************************)
(* C6  In every reachable state both endpoints of every IMPORTS edge are   *)
(* File nodes of the store.                                                *)
(***************************************************************************)
EndpointsExist ==
    \A e \in BagToSet(rels) : e[1] \in 1..Len(nodes) /\ e[2] \in 1..Len(nodes)

\* After a failed run: an edge to a node that no record ever described.
EndpointsExistWitness ==
    /\ pc = "exited"
    /\ Failed
    /\ \E e \in BagToSet(rels) : nodes[e[2]].id = Absent /\ e[1] # e[2]

(***************************************************************************)
(* C7  The entry point exits with a non-zero status whenever a store       *)
(* operation of the run failed, and with status zero only when all steps   *)
(* succeeded.                                                              *)
(***************************************************************************)
ExitStatusTellsFailure ==
    (Scoped /\ pc = "exited") => (exitStatus = Some(0) <=> ~Failed)

\* The edge upsert of the scoped importer commits.
EdgeUpsertStep == Scoped /\ pc = "mergeImports" /\ pc' = "listFiles"

\* The paths at either end of a pair of the current list.
Endpoints == Targets \cup UNION {RelPairs(files)[i].from : i \in 1..Len(RelPairs(files))}

(***************************************************************************)
(* C3 (as stated)  The edge upsert sets projectUuid to the scope of the    *)
(* batch only on a node it creates; every node that exists when the edge   *)
(* upsert touches it keeps its projectUuid untouched.                      *)
(***************************************************************************)
EdgeUpsertLeavesProjects ==
    [][EdgeUpsertStep =>
          /\ \A n \in 1..Len(nodes) : nodes'[n].projectUuid = nodes[n].projectUuid
          /\ \A n \in (Len(nodes) + 1)..Len(nodes') : nodes'[n].projectUuid = Some(Scope)
      ]_vars

(***************************************************************************)
(* C3 (amended)  ... every node that exists with a projectUuid keeps it;   *)
(* an existing endpoint without a projectUuid (a node of the importer      *)
(* without a scope) gets the scope of the batch, as a created node does.   *)
(***************************************************************************)
EdgeUpsertKeepsProjects ==
    [][EdgeUpsertStep =>
          /\ \A n \in 1..Len(nodes) :
                nodes'[n].projectUuid =
                    IF nodes[n].projectUuid = Absent /\ nodes[n].path \in Endpoints
                    THEN Some(Scope) ELSE nodes[n].projectUuid
          /\ \A n \in (Len(nodes) + 1)..Len(nodes') : nodes'[n].projectUuid = Some(Scope)
      ]_vars

\* After the edge upsert of a batch: a node of another project that the
\* batch names only as an import target.
EdgeUpsertKeepsProjectsWitness ==
    /\ AfterUpserts
    /\ \E n \in 1..Len(nodes) :
          /\ nodes[n].path \in Targets \ RecordPaths
          /\ nodes[n].projectUuid \notin {Absent, Some(Scope)}

(***************************************************************************)
(* C4  When the edge upsert meets an import target that has no node, it    *)
(* creates one node for it that carries the path and the scope of the      *)
(* batch and nothing else, and the one edge from the importing record's    *)
(* node to it.  The single record {path: a, importFiles: [b]} on an empty  *)
(* store gives exactly the nodes a, b and the edge a -> b.                 *)
(***************************************************************************)
MissingEndpointsCreated ==
    [][EdgeUpsertStep =>
          \A i \in 1..Len(RelPairs(files)) :
             LET to == RelPairs(files)[i].to
                 from == The(RelPairs(files)[i].from)
             IN Matching(nodes, to) = {} =>
                   \E b \in (Len(nodes) + 1)..Len(nodes') :
                      /\ Matching(nodes', to) = {b}
                      /\ nodes'[b].projectUuid = Some(Scope)
                      /\ \A f \in {"externalImports", "name", "loc", "description", "id",
                                   "importCount", "importedByCount", "clusterId"} :
                            nodes'[b][f] = Absent
                      /\ \E a \in Matching(nodes', from) : CopiesIn(<<a, b>>, rels') = 1
      ]_vars

\* The example of the claim: the first run, on the one record a importing b.
MissingEndpointsWitness ==
    /\ AfterUpserts
    /\ runs = 1
    /\ Len(files) = 1
    /\ files[1].path = Some("a")
    /\ files[1].importFiles = Some(<<"b">>)
    /\ Len(nodes) = 2
    /\ nodes[1].path = "a"
    /\ nodes[2] = [NewNode("b") EXCEPT !.projectUuid = projectUuid]
    /\ rels = SetToBag({<<1, 2>>})

(***************************************************************************)
(* C8  Every session opened by the import (the session of importRepo, the  *)
(* session of ensureConstraint) or by a request to the query proxy is      *)
(* closed exactly once on every way out: no session is closed twice or     *)
(* before it is opened, and none is open once the operation that opened it *)
(* has finished, whether it succeeded or failed at any step.               *)
(***************************************************************************)
SessionsClosedOnce ==
    /\ \A k \in DOMAIN opened : closed[k] <= opened[k] /\ opened[k] <= 1
    /\ pc # "ensure" => closed.ensure = opened.ensure
    /\ pc \in {"idle", "exited"} => closed.import = opened.import
    /\ pc \notin {"idle", "exited"} => opened.import = 1 /\ closed.import = 0
    /\ qpc \in {"idle", "sent"} => closed.query = opened.query
    /\ qpc \in {"run", "finally"} => opened.query = 1 /\ closed.query = 0

\* A run that failed in the nested updateImportCounts has ended, and a
\* request whose query failed has been answered: all three sessions were
\* opened and are closed.
SessionsClosedOnceWitness ==
    /\ pc = "exited"
    /\ err = "updateImportCounts"
    /\ qpc = "sent"
    /\ qStatus = 500
    /\ \A k \in DOMAIN opened : opened[k] = 1 /\ closed[k] = 1

\* Community detection has returned / has failed, the finally block not yet run.
DetectionReturned == Scoped /\ pc = "finally" /\ err = "none"

DetectionFailed == Scoped /\ pc = "finally" /\ err = "detectCommunities"

\* The projection gds.graph.project builds from the store as it is.
Projected == [nodes |-> 1..Len(nodes), rels |-> rels]

UpsertFails == pc \in {"mergeFiles", "mergeImports"} /\ err' \in {"mergeFiles", "mergeImports"}

(***************************************************************************)
(* C10  When the batched node upsert or the batched edge upsert fails on a *)
(* row, none of the statement's writes is committed (nodes and edges are   *)
(* as before the step), the step is aborted, and the error reaches the     *)
(* caller of importRepo: the promise importRepo returned is rejected.      *)
(***************************************************************************)
BatchFailureSurfaces ==
    [][/\ UpsertFails => nodes' = nodes /\ rels' = rels /\ pc' = "finally"
       /\ (pc = "finally" /\ err \in {"mergeFiles", "mergeImports"}) => outcome' = "rejected"
      ]_vars

(***************************************************************************)
(* C11  If a record of the batch has no path, the normalizer leaves the    *)
(* path absent, the node upsert fails for the whole batch, no record of    *)
(* the batch is persisted as a node (the well-formed ones included), and   *)
(* the run fails there instead of skipping the record.                     *)
(***************************************************************************)
MalformedBatchFails ==
    [][/\ (pc = "mergeFiles" /\ \E i \in 1..Len(files) : files[i].path = Absent) =>
             nodes' = nodes /\ rels' = rels /\ err' = "mergeFiles" /\ pc' = "finally"
       /\ (pc = "finally" /\ err = "mergeFiles") =>
             nodes = atStart.nodes /\ rels = atStart.rels /\ nodes' = nodes /\ rels' = rels
      ]_vars

\* The node upsert of the scoped importer has failed on a list whose first
\* record is well-formed and whose second has an id and no path.
MalformedBatchWitness ==
    /\ Scoped
    /\ pc = "finally"
    /\ err = "mergeFiles"
    /\ Len(files) = 2
    /\ files[1].path # Absent
    /\ files[2].path = Absent
    /\ files[2].id # Absent
    /\ The(files[1].path) \notin PathsOf(nodes)

(***************************************************************************)
(* C12  If two records of one list share a path, the run surfaces an error *)
(* instead of resolving the collision silently (the later record winning). *)
(***************************************************************************)
DuplicatePathSurfaced ==
    (/\ Scoped
     /\ pc = "finally"
     /\ \E i, j \in 1..Len(files) : i < j /\ files[i].path # Absent /\ files[i].path = files[j].path)
    => Failed

\* The nodes without their clusterId.
NonCluster(ns) == [n \in 1..Len(ns) |-> [ns[n] EXCEPT !.clusterId = Absent]]

(***************************************************************************)
(* C13  If the community detection fails (at the drop, the projection or   *)
(* the algorithm), the File nodes, their attributes other than clusterId,  *)
(* the IMPORTS edges and the counts the earlier steps of the run committed *)
(* are unchanged by the failure and by the way out.                        *)
(***************************************************************************)
DetectionFailureKeepsGraph ==
    [][/\ (pc \in {"drop", "project", "louvain"} /\ err' = "detectCommunities") =>
             /\ NonCluster(nodes') = NonCluster(nodes)
             /\ rels' = rels
             /\ CountsMatchDegrees'
       /\ (pc = "finally" /\ err = "detectCommunities") => nodes' = nodes /\ rels' = rels
      ]_vars

\* The detection has failed in a run that added nodes and edges: the counts
\* are those of the edges, and a node has no clusterId.
DetectionFailureWitness ==
    /\ Scoped
    /\ pc = "finally"
    /\ err = "detectCommunities"
    /\ Len(atStart.nodes) < Len(nodes)
    /\ rels # EmptyBag
    /\ CountsMatchDegrees
    /\ \E n \in 1..Len(nodes) : nodes[n].clusterId = Absent

\* What the claims compare of a graph: per node its path, project and
\* counts, and the edges as pairs of paths, with their numbers.
Observed(g) ==
    [files |-> {<<g.nodes[n].path, g.nodes[n].projectUuid, g.nodes[n].importCount,
                  g.nodes[n].importedByCount>> : n \in 1..Len(g.nodes)},
     imports |-> EdgePaths(g.nodes, g.rels),
     numFiles |-> Len(g.nodes),
     numImports |-> BagCardinality(g.rels)]

\* A successful run on the records of the current list (with the ids a new
\* invocation gives them), after the failed one and in its place.  The two
\* are one and the same run where the failed one has committed nothing.
ReinvocationSame ==
    \/ [nodes |-> nodes, rels |-> rels] = atStart
    \/ LET fresh == Normalize(files, now + 1, [i \in 1..Len(files) |-> i])
           again == WholeRun([nodes |-> nodes, rels |-> rels], fresh, Scope)
           once == WholeRun(atStart, fresh, Scope)
       IN again.ok => once.ok /\ Observed(again) = Observed(once)

(***************************************************************************)
(* C14  Re-invocation is safe: whatever the step a run failed at, a        *)
(* successful run on the same input after it leaves the same node paths,   *)
(* edges, projectUuid values and counts as one successful run in place of  *)
(* both; and a run in which a step failed retries nothing: it is on the    *)
(* way out or has exited.                                                  *)
(***************************************************************************)
ReinvocationSafe ==
    (Scoped /\ Failed) =>
        /\ pc \in {"finally", "exited"}
        /\ pc = "finally" => ReinvocationSame

\* A run over a store with nodes has failed in the recount, after it had
\* committed new edges and some of the counts.
ReinvocationWitness ==
    /\ Scoped
    /\ pc = "finally"
    /\ err = "updateImportCounts"
    /\ atStart.nodes # <<>>
    /\ BagCardinality(atStart.rels) < BagCardinality(rels)
    /\ \E n \in 1..Len(atStart.nodes) : nodes[n].importCount # atStart.nodes[n].importCount
    /\ ReinvocationSame

\* The two uniqueness constraints on File.
BothConstraints == {"path", "id"}

(***************************************************************************)
(* C15  In every run with a non-empty input both uniqueness constraints on *)
(* File (on path, on id) exist before any node or edge write of the run;   *)
(* ensureConstraint called when they exist can succeed, and leaves the     *)
(* set of constraints as it is.                                            *)
(***************************************************************************)
SchemaBeforeWrites ==
    [][/\ (Scoped /\ (nodes' # nodes \/ rels' # rels)) => BothConstraints \subseteq constraints
       /\ (Scoped /\ pc = "ensure" /\ BothConstraints \subseteq constraints) =>
             /\ CanRequireUnique(nodes)
             /\ pc' = "mergeFiles" => constraints' = constraints
      ]_vars

\* ensureConstraint has succeeded in a run over a store that an earlier run
\* had given the constraints and nodes with ids.
SchemaBeforeWritesWitness ==
    /\ Scoped
    /\ pc = "mergeFiles"
    /\ constraints = BothConstraints
    /\ \E n \in 1..Len(atStart.nodes) : atStart.nodes[n].id # Absent

(***************************************************************************)
(* C16  Last write wins: after the node upsert, for every record the node  *)
(* of its path has externalImports, name, loc, description and id equal to *)
(* the record's and projectUuid equal to the scope of the batch, whatever  *)
(* it held before: lists replaced, absent fields removed.                  *)
(***************************************************************************)
LastWriteWins ==
    (Scoped /\ pc = "mergeImports") =>
        \A i \in 1..Len(files) :
            /\ Matching(nodes, The(files[i].path)) # {}
            /\ \A n \in Matching(nodes, The(files[i].path)) :
                  /\ \A f \in {"externalImports", "name", "loc", "description", "id"} :
                        nodes[n][f] = files[i][f]
                  /\ nodes[n].projectUuid = Some(Scope)

(***************************************************************************)
(* C17  Monotone graph: no step of any run deletes a File node or an       *)
(* IMPORTS edge; the nodes and edges after a step (and so after a run)     *)
(* include those before it, also the edges a later batch no longer         *)
(* declares.                                                               *)
(***************************************************************************)
NothingDeleted ==
    [][/\ Len(nodes') >= Len(nodes)
       /\ \A n \in 1..Len(nodes) : nodes'[n].path = nodes[n].path
       /\ \A e \in BagToSet(rels) : CopiesIn(e, rels') >= CopiesIn(e, rels)
      ]_vars

\* The pairs of paths the current list declares.
DeclaredImports ==
    {<<The(RelPairs(files)[i].from), RelPairs(files)[i].to>> : i \in 1..Len(RelPairs(files))}

\* Both upserts of a batch have run, and an edge of an earlier batch leaves
\* a file of this batch, whose record does not declare it.
NothingDeletedWitness ==
    /\ AfterUpserts
    /\ \E e \in BagToSet(atStart.rels) :
          /\ BagIn(e, rels)
          /\ nodes[e[1]].path \in RecordPaths
          /\ <<nodes[e[1]].path, nodes[e[2]].path>> \notin DeclaredImports

\* The detection of a run that started on an empty store has returned.
FirstRunDone == Scoped /\ pc = "finally" /\ ~Failed /\ atStart = NoGraph

\* The list [{a imports b}, {b}].
ExampleList ==
    /\ Len(files) = 2
    /\ files[1].path = Some("a") /\ files[1].importFiles = Some(<<"b">>)
    /\ files[2].path = Some("b") /\ files[2].importFiles = Some(<<>>)

(***************************************************************************)
(* C18  End to end: a successful run with scope P on an empty store gives  *)
(* exactly one node per path that is a record's path or an import target,  *)
(* exactly one edge per declared pair, projectUuid = P on every node,      *)
(* counts that match the edges and a clusterId on every node; for          *)
(* [{a imports b}, {b}]: two nodes, the edge a -> b, a.importCount = 1,    *)
(* b.importedByCount = 1, one clusterId on both.                           *)
(***************************************************************************)
EndToEnd ==
    FirstRunDone =>
        /\ PathsOf(nodes) = RecordPaths \cup Targets
        /\ NoDuplicateNodes(nodes)
        /\ EdgePaths(nodes, rels) = DeclaredImports
        /\ NoDuplicateEdges(rels)
        /\ \A n \in 1..Len(nodes) :
              nodes[n].projectUuid = Some(Scope) /\ nodes[n].clusterId # Absent
        /\ CountsMatchDegrees
        /\ ExampleList =>
              /\ Len(nodes) = 2
              /\ rels = SetToBag({<<1, 2>>})
              /\ nodes[1].path = "a" /\ nodes[2].path = "b"
              /\ nodes[1].importCount = Some(1) /\ nodes[2].importedByCount = Some(1)
              /\ nodes[1].clusterId = nodes[2].clusterId

EndToEndWitness ==
    /\ FirstRunDone
    /\ ExampleList
    /\ Scope = "P1"
    /\ Len(nodes) = 2
    /\ nodes[1].clusterId = nodes[2].clusterId

\* w is v with every Integer replaced by the number of the same value,
\* and nothing else changed.
RECURSIVE Faithful(_, _)
Faithful(v, w) ==
    IF v.t = "array"
    THEN /\ w.t = "array"
         /\ Len(w.items) = Len(v.items)
         /\ \A i \in 1..Len(v.items) : Faithful(v.items[i], w.items[i])
    ELSE IF v.t = "object"
         THEN /\ w.t = "object"
              /\ DOMAIN w.fields = DOMAIN v.fields
              /\ \A k \in DOMAIN v.fields : Faithful(v.fields[k], w.fields[k])
         ELSE IF v.t = "Integer"
              THEN w = Num(v.high < 0, Magnitude(v))
              ELSE w = v

(***************************************************************************)
(* C20  Numeric conversion: what the query proxy returns has the shape of  *)
(* the result (arrays of the same length and order, objects of the same    *)
(* keys, strings, null and native numbers unchanged), with every Integer   *)
(* at any depth replaced by the native number of the same integer value.   *)
(***************************************************************************)
ConversionFaithful ==
    (qpc = "finally" /\ qStatus = 200) => Faithful(Arr(The(qRows)), The(qBody))

\* The nodes joined to those of S by IMPORTS edges of either direction.
RECURSIVE Grow(_)
Grow(S) ==
    LET more == S \cup {y \in 1..Len(nodes) : \E x \in S : Adj(rels, x, y) > 0}
    IN IF more = S THEN S ELSE Grow(more)

Component(n) == Grow({n})

Components == {Component(n) : n \in 1..Len(nodes)}

(***************************************************************************)
(* C19 (as stated)  After a successful community detection on a graph of   *)
(* two components, the nodes of a component carry one clusterId, and the   *)
(* clusterIds of the two components differ.                                *)
(***************************************************************************)
ComponentsAreCommunities ==
    (DetectionReturned /\ Cardinality(Components) = 2) =>
        \A m, n \in 1..Len(nodes) :
            /\ nodes[m].clusterId # Absent
            /\ nodes[m].clusterId = nodes[n].clusterId <=> Component(m) = Component(n)

(***************************************************************************)
(* C19 (amended)  ... every node carries a clusterId and no clusterId of   *)
(* the first component is a clusterId of the second; the nodes of one      *)
(* component may carry several (a chain of four files is split in two).    *)
(***************************************************************************)
CommunitiesWithinComponents ==
    (DetectionReturned /\ Cardinality(Components) = 2) =>
        \A m, n \in 1..Len(nodes) :
            /\ nodes[m].clusterId # Absent
            /\ Component(m) # Component(n) => nodes[m].clusterId # nodes[n].clusterId

\* The detection has returned on two components, each of more than one
\* node, each with one clusterId of its own.
CommunitiesWitness ==
    /\ DetectionReturned
    /\ Cardinality(Components) = 2
    /\ \A c \in Components : Cardinality(c) > 1
    /\ \A m, n \in 1..Len(nodes) :
          nodes[m].clusterId = nodes[n].clusterId <=> Component(m) = Component(n)

\* The attributes the node upsert writes from a record and the scope.
RecordAttributes == {"projectUuid", "externalImports", "name", "loc", "description", "id"}

(***************************************************************************)
(* C21  Project partitioning: no step of a run under one scope changes the *)
(* projectUuid, externalImports, name, loc, description or id of a node    *)
(* that carries another scope, whatever the batch, a batch with a record   *)
(* of that node's path included.                                           *)
(***************************************************************************)
ProjectPartitioned ==
    [][(Scoped /\ projectUuid # Absent) =>
          \A n \in 1..Len(nodes) :
             (nodes[n].projectUuid # Absent /\ nodes[n].projectUuid # projectUuid) =>
                \A f \in RecordAttributes : nodes'[n][f] = nodes[n][f]
      ]_vars

\* A run of the scoped importer is between its normalizer and its end.
Running == Scoped /\ pc \notin {"idle", "exited"}

(***************************************************************************)
(* C22  Normalizer id uniqueness: the ids the normalizer gives the records *)
(* of a run are pairwise distinct and distinct from every id an earlier    *)
(* run gave (and left on a node), so that the node upsert of records with  *)
(* paths never fails on the uniqueness constraint on id.                   *)
(***************************************************************************)
GeneratedIdsUnique ==
    Running =>
        /\ \A i, j \in 1..Len(files) : i # j => files[i].id # files[j].id
        /\ \A i \in 1..Len(files) : \A n \in 1..Len(atStart.nodes) :
              atStart.nodes[n].id # files[i].id
        /\ (pc = "mergeFiles" /\ \A i \in 1..Len(files) : files[i].path # Absent) =>
              NodeRows(nodes, files, Len(files), Scope, constraints, FALSE).ok

\* The step of the pipeline a position of the scoped importer belongs to:
\* 1 ensure schema, 2 node upsert, 3 edge upsert, 4 degree recount,
\* 5 community detection.
StepOf ==
    [ensure |-> 1, mergeFiles |-> 2, mergeImports |-> 3, listFiles |-> 4,
     updateCounts |-> 4, drop |-> 5, project |-> 5, louvain |-> 5]

\* The invocation is about to be at a position of step k or later.
Reaches(k) == importer' = "tree-to-graph" /\ pc' \in DOMAIN StepOf /\ StepOf[pc'] >= k

(***************************************************************************)
(* C24  Pipeline ordering: within an invocation the steps come in the      *)
(* order ensure schema, node upsert, edge upsert, degree recount,          *)
(* community detection, none skipped back or ahead, and each starts on     *)
(* what the steps before it have committed: the constraints, a node for    *)
(* every record, an edge for every declared pair, the counts.  Throughout  *)
(* the recount the edges stay as they are.                                 *)
(***************************************************************************)
PipelineInOrder ==
    [][/\ Reaches(1) =>
             IF pc \in DOMAIN StepOf
             THEN StepOf[pc'] \in {StepOf[pc], StepOf[pc] + 1}
             ELSE pc' = "ensure"
       /\ Reaches(2) => BothConstraints \subseteq constraints'
       /\ Reaches(3) => \A p \in RecordPaths : Matching(nodes', p) # {}
       /\ Reaches(4) => /\ DeclaredImports \subseteq EdgePaths(nodes', rels')
                        /\ pc \in {"listFiles", "updateCounts"} => rels' = rels
       /\ Reaches(5) => CountsMatchDegrees'
      ]_vars

\* The recount is under way on a batch of two declared pairs, in a store
\* that had edges before.
PipelineInOrderWitness ==
    /\ Scoped
    /\ pc = "updateCounts"
    /\ Len(todo) = 1
    /\ Cardinality(DeclaredImports) = 2
    /\ atStart.rels # EmptyBag
    /\ BagCardinality(rels) > BagCardinality(atStart.rels)

\* An operation of the run has ended and the next has not begun: after the
\* node upsert, after the edge upsert, after the recount.
BetweenOperations == Running /\ ~Failed /\ pc \in {"mergeImports", "listFiles", "drop"}

(***************************************************************************)
(* C25  Session scoping: every store operation of a run (a transactional   *)
(* write, the recount loop) has a session of its own, released when the    *)
(* operation ends; between two operations the run holds no open session.   *)
(***************************************************************************)
SessionPerOperation ==
    BetweenOperations => \A k \in {"import", "ensure"} : opened[k] = closed[k]

\* The attributes that are computed from the graph.
DerivedAttributes == {"importCount", "importedByCount", "clusterId"}

(***************************************************************************)
(* C26  Snapshot semantics: the node upsert and the edge upsert leave      *)
(* importCount, importedByCount and clusterId of every node as they are    *)
(* (a node they create has none); the counts of a node change only in a    *)
(* statement of the recount and its clusterId only in the write of the     *)
(* community detection.                                                    *)
(***************************************************************************)
SnapshotAttributes ==
    [][/\ pc \in {"mergeFiles", "mergeImports"} =>
             /\ \A n \in 1..Len(nodes) : \A f \in DerivedAttributes :
                   nodes'[n][f] = nodes[n][f]
             /\ \A n \in (Len(nodes) + 1)..Len(nodes') : \A f \in DerivedAttributes :
                   nodes'[n][f] = Absent
       /\ \A n \in 1..Len(nodes) :
             /\ (\/ nodes'[n].importCount # nodes[n].importCount
                 \/ nodes'[n].importedByCount # nodes[n].importedByCount) =>
                   pc = "updateCounts"
             /\ nodes'[n].clusterId # nodes[n].clusterId => pc = "louvain"
      ]_vars

\* Between the edge commit and the recount: a node whose counts, written by
\* an earlier run, are not its degrees, next to a node without counts.
SnapshotAttributesWitness ==
    /\ AfterUpserts
    /\ \E n \in 1..Len(nodes) :
          /\ nodes[n].importCount \notin {Absent, Some(NumOut(n))}
          /\ nodes[n].clusterId # Absent
    /\ \E n \in 1..Len(nodes) : nodes[n].importedByCount = Absent

(***************************************************************************)
(* C27  Fresh projection on every call: in every call of the community     *)
(* detection the drop comes before the build and cannot fail for want of   *)
(* a projection, the build finds no projection of the reserved name, and   *)
(* the algorithm runs on the projection that call built from the nodes     *)
(* and edges the store holds: what an earlier run left is not used and     *)
(* does not make the call fail.                                            *)
(***************************************************************************)
FreshProjection ==
    Running =>
        /\ pc = "drop" => ENABLED DropProjection
        /\ pc = "project" => projection = Absent /\ ENABLED ProjectGraph
        /\ pc = "louvain" => projection = Some(Projected)

\* The algorithm is about to run in a run that added a node to a store an
\* earlier detection had labelled (and left its projection for).
FreshProjectionWitness ==
    /\ Running
    /\ pc = "louvain"
    /\ projection = Some(Projected)
    /\ \E n \in 1..Len(atStart.nodes) : atStart.nodes[n].clusterId # Absent
    /\ Len(nodes) > Len(atStart.nodes)

\* An invocation of either importer starts on an empty list.
EmptyCall == runs' = runs + 1 /\ files' = <<>>

(***************************************************************************)
(* C28  Empty input is a no-op: importRepo called with an empty list (or   *)
(* none) returns at once: it opens no session, runs no step and leaves     *)
(* the nodes, the edges, the constraints and the graph catalog as they     *)
(* are.                                                                    *)
(***************************************************************************)
EmptyInputNoOp ==
    [][EmptyCall =>
          /\ pc' = "exited"
          /\ opened' = NoSessions
          /\ closed' = NoSessions
          /\ err' = "none"
          /\ outcome' = "resolved"
          /\ UNCHANGED store
      ]_vars

\* The scoped importer has returned from an empty list, over a store that
\* an earlier run filled and left a projection of.
EmptyInputWitness ==
    /\ Scoped
    /\ pc = "exited"
    /\ runs = 2
    /\ opened = NoSessions
    /\ nodes # <<>>
    /\ rels # EmptyBag
    /\ projection # Absent

\* The recount of the scoped importer has failed; the finally block has not
\* run yet.
RecountFailed == Scoped /\ pc = "finally" /\ err = "updateImportCounts"

\* The nodes whose statement has run: those before the k-th, the head of
\* what is left to do (none when reading the list failed).
Recounted == IF todo = <<>> THEN {} ELSE 1..(Head(todo) - 1)

\* The counts node n had when the recount started: the upserts write none
\* (C26), so they are those of the start of the run, and none on a node the
\* run created.
CountsBefore(n) ==
    IF n <= Len(atStart.nodes)
    THEN <<atStart.nodes[n].importCount, atStart.nodes[n].importedByCount>>
    ELSE <<Absent, Absent>>

(***************************************************************************)
(* C30  Partial recount on failure: when the statement for the k-th node   *)
(* fails, the failure changes no node and no edge, the nodes before the    *)
(* k-th hold the counts of their degrees, every other node holds the       *)
(* counts it had before the recount, and the run goes to its end without   *)
(* the community detection.                                                *)
(***************************************************************************)
PartialRecount ==
    [][/\ (Scoped /\ err' = "updateImportCounts" /\ err = "none") =>
             nodes' = nodes /\ rels' = rels /\ pc' = "finally"
       /\ RecountFailed =>
             /\ \A n \in Recounted :
                   /\ nodes[n].importCount = Some(NumOut(n))
                   /\ nodes[n].importedByCount = Some(NumIn(n))
             /\ \A n \in (1..Len(nodes)) \ Recounted :
                   <<nodes[n].importCount, nodes[n].importedByCount>> = CountsBefore(n)
             /\ pc' = "exited"
             /\ UNCHANGED store
      ]_vars

\* The statement for the second node has failed: the first node has new
\* counts, the second the counts an earlier run gave it, no longer its
\* degrees.
PartialRecountWitness ==
    /\ RecountFailed
    /\ todo # <<>>
    /\ Head(todo) = 2
    /\ Len(atStart.nodes) >= 2
    /\ nodes[1].importCount # atStart.nodes[1].importCount
    /\ nodes[2].importedByCount \notin {Absent, Some(NumIn(2))}

(***************************************************************************)
(* C23  Normalizer purity: normalizing a list leaves the caller's records  *)
(* as they were (no description or id added or overwritten on them), and   *)
(* the sequence returned has the length and the order of the input.        *)
(***************************************************************************)
NormalizerPure ==
    [][pc = "normalize" =>
          /\ jsonData' = jsonData
          /\ Len(files') = Len(jsonData)
          /\ \A i \in 1..Len(jsonData) :
                \A f \in {"path", "importFiles", "externalImports", "name", "loc"} :
                   files'[i][f] = jsonData[i][f]
      ]_vars

\* Both invocations have run to their end and no step of either has thrown.
BothCompleted ==
    /\ peer # NoPeer
    /\ pc = "exited" /\ err = "none"
    /\ peer.pc = "exited" /\ peer.err = "none"

(***************************************************************************)
(* C29 (as stated)  Interleaved invocations: when two invocations whose    *)
(* statements reach the store in any order have both completed, every      *)
(* File node has importCount equal to its out-degree and importedByCount   *)
(* equal to its in-degree.                                                 *)
(***************************************************************************)
InterleavedCounts == BothCompleted => CountsMatchDegrees

(***************************************************************************)
(* C29 (amended)  ... the same, when at least one of the two had a list    *)
(* with records: an invocation on an empty list recounts nothing.          *)
(***************************************************************************)
InterleavedPipelineCounts ==
    (BothCompleted /\ (opened.import = 1 \/ peer.opened.import = 1)) => CountsMatchDegrees

\* An invocation is in its recount with a list taken before the other one
\* created a node, and the other one has still to recount.
InterleavedWitness ==
    /\ peer # NoPeer
    /\ pc = "updateCounts"
    /\ \A i \in 1..Len(todo) : todo[i] < Len(nodes)
    /\ peer.pc \in {"mergeImports", "listFiles"}
    /\ peer.projectUuid # projectUuid
    /\ \E n \in 1..Len(nodes) : nodes[n].projectUuid = peer.projectUuid

====
